---- MODULE Spec2Model ----
(***************************************************************************)
(* A model of the expense tracker of src/app.py: the backing file          *)
(* expenses.csv, load_expenses, add_expense, the two summaries and the     *)
(* filters of the "All Expenses" tab.  A script run of main() is three      *)
(* steps in the order of the code, kept by pc: the load, the form, the     *)
(* main content.                                                           *)
(*                                                                         *)
(* Text is modelled as sequences of one-character strings, so that the     *)
(* encoders (strftime, str(float), str.strip) and the decoders (read_csv,  *)
(* to_numeric, to_datetime) are computed and not assumed to be inverse.    *)
(* A line of the file is the sequence of its comma-separated fields (the   *)
(* quoting of csv.writer and the unquoting of read_csv are taken at that   *)
(* level); the blank line is the line with no field.  Amounts are whole    *)
(* hundredths, added exactly.                                              *)
(***************************************************************************)
EXTENDS Integers, Sequences, FiniteSets, TLC

\* ------------------------------------------------------------------ bounds

\* The longest backing file the model starts from.
MaxInitLines == 2

\* add_expense is not taken once the file holds this many lines.
MaxFileLines == 2

\* ------------------------------------------------------------------ text

Digits == <<"0", "1", "2", "3", "4", "5", "6", "7", "8", "9">>

IsDigit(c) == \E i \in 1..10 : Digits[i] = c

DigitVal(c) == (CHOOSE i \in 1..10 : Digits[i] = c) - 1

AllDigits(s) == \A i \in 1..Len(s) : IsDigit(s[i])

RECURSIVE DigitsVal(_)
DigitsVal(s) ==
    IF s = <<>> THEN 0
    ELSE DigitsVal(SubSeq(s, 1, Len(s) - 1)) * 10 + DigitVal(s[Len(s)])

RECURSIVE IntStr(_)
IntStr(n) ==
    IF n < 10 THEN <<Digits[n + 1]>>
    ELSE Append(IntStr(n \div 10), Digits[(n % 10) + 1])

\* "%02d" and "%04d": zero padding on the left.
RECURSIVE ZeroPad(_, _)
ZeroPad(s, width) == IF Len(s) >= width THEN s ELSE ZeroPad(<<"0">> \o s, width)

\* The characters the model's texts use, in code point order.
Alphabet ==
    <<" ", "-", ".", "0", "1", "2", "3", "4", "5", "6", "7", "8", "9",
      "A", "F", "N", "T", "a", "b", "c", "d", "e", "l", "o", "r", "v", "x">>

CharRank(c) == CHOOSE i \in 1..Len(Alphabet) : Alphabet[i] = c

\* Python's and numpy's ordering of str: lexicographic by code point.
RECURSIVE StrLess(_, _)
StrLess(a, b) ==
    IF b = <<>> THEN FALSE
    ELSE IF a = <<>> THEN TRUE
    ELSE IF a[1] # b[1] THEN CharRank(a[1]) < CharRank(b[1])
    ELSE StrLess(Tail(a), Tail(b))

\* str.strip(): whitespace removed at both ends.
RECURSIVE LStrip(_)
LStrip(s) == IF s # <<>> /\ s[1] = " " THEN LStrip(Tail(s)) ELSE s

RECURSIVE RStrip(_)
RStrip(s) ==
    IF s # <<>> /\ s[Len(s)] = " " THEN RStrip(SubSeq(s, 1, Len(s) - 1)) ELSE s

Strip(s) == RStrip(LStrip(s))

\* ------------------------------------------------------------------ dates

\* A date is <<year, month, day>>.
IsLeap(y) == (y % 4 = 0 /\ y % 100 # 0) \/ y % 400 = 0

DaysIn(y, m) ==
    IF m = 2 THEN (IF IsLeap(y) THEN 29 ELSE 28)
    ELSE IF m \in {4, 6, 9, 11} THEN 30 ELSE 31

ValidDate(d) ==
    /\ d[1] \in 1..9999
    /\ d[2] \in 1..12
    /\ d[3] \in 1..DaysIn(d[1], d[2])

DateLE(a, b) ==
    \/ a[1] < b[1]
    \/ a[1] = b[1] /\ a[2] < b[2]
    \/ a[1] = b[1] /\ a[2] = b[2] /\ a[3] <= b[3]

\* expense_date.strftime("%Y-%m-%d")
StrfDate(d) ==
    ZeroPad(IntStr(d[1]), 4) \o <<"-">> \o ZeroPad(IntStr(d[2]), 2)
        \o <<"-">> \o ZeroPad(IntStr(d[3]), 2)

\* str(period) of dt.to_period('M'): "YYYY-MM".
MonthStr(d) == ZeroPad(IntStr(d[1]), 4) \o <<"-">> \o ZeroPad(IntStr(d[2]), 2)

NaT == [ok |-> FALSE, v |-> <<0, 0, 0>>]

\* pd.to_datetime(errors='coerce') of one cell, on the texts of the model: an
\* ISO calendar date parses, anything else is NaT.  (pandas reads further
\* layouts, which none of the lines of the model uses.)
ToDatetime(s) ==
    IF /\ Len(s) = 10
       /\ s[5] = "-"
       /\ s[8] = "-"
       /\ AllDigits(SubSeq(s, 1, 4))
       /\ AllDigits(SubSeq(s, 6, 7))
       /\ AllDigits(SubSeq(s, 9, 10))
    THEN LET d == <<DigitsVal(SubSeq(s, 1, 4)), DigitsVal(SubSeq(s, 6, 7)),
                    DigitsVal(SubSeq(s, 9, 10))>>
         IN  IF ValidDate(d) THEN [ok |-> TRUE, v |-> d] ELSE NaT
    ELSE NaT

\* ---------------------------------------------------------------- amounts

\* str(amount) of a float with at most two decimals, amount in hundredths:
\* 1000 is "10.0", 550 is "5.5", 5 is "0.05".
FloatStr(h) ==
    LET a    == IF h < 0 THEN 0 - h ELSE h
        frac == a % 100
        fs   == IF frac % 10 = 0 THEN <<Digits[(frac \div 10) + 1]>>
                ELSE <<Digits[(frac \div 10) + 1], Digits[(frac % 10) + 1]>>
    IN  (IF h < 0 THEN <<"-">> ELSE <<>>) \o IntStr(a \div 100) \o <<".">> \o fs

NaN == [ok |-> FALSE, v |-> 0]

\* The digits before and after the decimal point of an unsigned numeral.
PointAt(s) == IF \E i \in 1..Len(s) : s[i] = "."
              THEN CHOOSE i \in 1..Len(s) : s[i] = "." ELSE Len(s) + 1

\* pd.to_numeric(errors='coerce') of one cell, in hundredths: a decimal
\* numeral with at most two decimals parses, other text is NaN.
ToNumeric(s) ==
    LET neg  == s # <<>> /\ s[1] = "-"
        u    == IF neg THEN Tail(s) ELSE s
        p    == PointAt(u)
        ip   == SubSeq(u, 1, p - 1)
        fp   == SubSeq(u, p + 1, Len(u))
        good == /\ ip # <<>> /\ AllDigits(ip)
                /\ AllDigits(fp)
                /\ (p <= Len(u) => Len(fp) \in 1..2)
        fv   == IF Len(fp) = 1 THEN DigitsVal(fp) * 10 ELSE DigitsVal(fp)
        mag  == DigitsVal(ip) * 100 + fv
    IN  IF good THEN [ok |-> TRUE, v |-> IF neg THEN 0 - mag ELSE mag] ELSE NaN

\* ------------------------------------------------------------- the file

\* The texts read_csv takes for a missing value (keep_default_na).
NAValues ==
    { <<>>,
      <<"N", "A">>, <<"N", "/", "A">>, <<"n", "/", "a">>, <<"N", "a", "N">>,
      <<"n", "a", "n">>, <<"-", "N", "a", "N">>, <<"-", "n", "a", "n">>,
      <<"N", "U", "L", "L">>, <<"n", "u", "l", "l">>, <<"N", "o", "n", "e">>,
      <<"<", "N", "A", ">">>, <<"#", "N", "A">>, <<"#", "N", "/", "A">>,
      <<"#", "N", "/", "A", " ", "N", "/", "A">>,
      <<"1", ".", "#", "I", "N", "D">>, <<"-", "1", ".", "#", "I", "N", "D">>,
      <<"1", ".", "#", "Q", "N", "A", "N">>,
      <<"-", "1", ".", "#", "Q", "N", "A", "N">> }

\* A cell of the frame read_csv returns: a text, or missing.
NACell == [na |-> TRUE, s |-> <<>>]

Cell(row, i) ==
    IF i > Len(row) \/ row[i] \in NAValues THEN NACell
    ELSE [na |-> FALSE, s |-> row[i]]

NonBlank(line) == line # <<>>

Max(a, b) == IF a >= b THEN a ELSE b

\* names=['date', 'category', 'amount']
NumNames == Len(<<"date", "category", "amount">>)

\* pd.read_csv("expenses.csv", names=[...]) on the lines of the file.  Blank
\* lines are skipped.  The first row fixes the width of the table, at least
\* the three names; a later row with more fields is a ParserError; a row with
\* fewer is filled with missing values.  With a first row wider than the
\* names, the leading fields become the index and the names fall on the last
\* three.  (All categories of the model are non-numeric text, so the column
\* stays text.)
Tokenized(rows) ==
    LET width == Max(Len(rows[1]), NumNames)
        lead  == width - NumNames
    IN  IF \E i \in 2..Len(rows) : Len(rows[i]) > width
        THEN [error |-> TRUE, rows |-> <<>>]
        ELSE [error |-> FALSE,
              rows  |-> [i \in 1..Len(rows) |->
                           [date     |-> Cell(rows[i], lead + 1),
                            category |-> Cell(rows[i], lead + 2),
                            amount   |-> Cell(rows[i], lead + 3)]]]

\* read_csv without names=: a file with no row is an EmptyDataError.
read_csv_no_names(lines) ==
    LET rows == SelectSeq(lines, NonBlank)
    IN  IF rows = <<>> THEN [error |-> TRUE, rows |-> <<>>] ELSE Tokenized(rows)

\* With the names given, a file with no row is an empty frame.
read_csv(lines) ==
    LET rows == SelectSeq(lines, NonBlank)
    IN  IF rows = <<>> THEN [error |-> FALSE, rows |-> <<>>] ELSE Tokenized(rows)

\* df.dropna() before the conversions: rows with a missing cell go.
HasNoNA(row) == ~row.date.na /\ ~row.category.na /\ ~row.amount.na

\* The two conversions of load_expenses, cell by cell.
Converted(row) ==
    [date     |-> ToDatetime(row.date.s),
     category |-> row.category.s,
     amount   |-> ToNumeric(row.amount.s)]

\* df.dropna() after the conversions: rows with NaT or NaN go.
IsComplete(c) == c.date.ok /\ c.amount.ok

Record(c) == [date |-> c.date.v, category |-> c.category, amount |-> c.amount.v]

EmptyFrame == [df |-> <<>>, error |-> FALSE]

\* load_expenses(): the records of the file, and whether st.error was called.
load_expenses(exists, lines) ==
    IF ~exists THEN EmptyFrame
    ELSE LET r == read_csv(lines)
         IN  IF r.error THEN [df |-> <<>>, error |-> TRUE]
             ELSE LET kept == SelectSeq(r.rows, HasNoNA)
                  IN  IF kept = <<>> THEN EmptyFrame
                      ELSE LET conv == [i \in 1..Len(kept) |-> Converted(kept[i])]
                               full == SelectSeq(conv, IsComplete)
                           IN  [df    |-> [i \in 1..Len(full) |-> Record(full[i])],
                                error |-> FALSE]

\* writer.writerow([date_str, category.strip(), amount])
CsvRow(expense_date, category, amount) ==
    <<StrfDate(expense_date), Strip(category), FloatStr(amount)>>

\* add_expense with the amount test written "< 0".
add_expense_zero_passes(exists, lines, expense_date, category, amount) ==
    IF Strip(category) = <<>>
    THEN [ok |-> FALSE, msg |-> "EmptyCategory", exists |-> exists, lines |-> lines]
    ELSE IF amount < 0
    THEN [ok |-> FALSE, msg |-> "NonPositiveAmount", exists |-> exists, lines |-> lines]
    ELSE [ok |-> TRUE, msg |-> "added", exists |-> TRUE,
          lines |-> Append(lines, CsvRow(expense_date, category, amount))]

\* add_expense with the file opened in mode "w".
add_expense_truncating(exists, lines, expense_date, category, amount) ==
    IF Strip(category) = <<>>
    THEN [ok |-> FALSE, msg |-> "EmptyCategory", exists |-> exists, lines |-> lines]
    ELSE IF amount <= 0
    THEN [ok |-> FALSE, msg |-> "NonPositiveAmount", exists |-> exists, lines |-> lines]
    ELSE [ok |-> TRUE, msg |-> "added", exists |-> TRUE,
          lines |-> <<CsvRow(expense_date, category, amount)>>]

\* add_expense(expense_date, category, amount) on the file (exists, lines):
\* what it returns, the message it shows, and the file it leaves.
add_expense(exists, lines, expense_date, category, amount) ==
    IF Strip(category) = <<>>
    THEN [ok |-> FALSE, msg |-> "EmptyCategory", exists |-> exists, lines |-> lines]
    ELSE IF amount <= 0
    THEN [ok |-> FALSE, msg |-> "NonPositiveAmount", exists |-> exists, lines |-> lines]
    ELSE [ok |-> TRUE, msg |-> "added", exists |-> TRUE,
          lines |-> Append(lines, CsvRow(expense_date, category, amount))]

\* ------------------------------------------------------------ summaries

RECURSIVE SumAmounts(_)
SumAmounts(rows) ==
    IF rows = <<>> THEN 0 ELSE rows[1].amount + SumAmounts(Tail(rows))

MonthOf(d) == <<d[1], d[2]>>

MonthLess(a, b) == a[1] < b[1] \/ (a[1] = b[1] /\ a[2] < b[2])

\* groupby sorts its keys: the months in time order.
RECURSIVE SortedMonths(_)
SortedMonths(S) ==
    IF S = {} THEN <<>>
    ELSE LET m == CHOOSE x \in S : \A y \in S \ {x} : MonthLess(x, y)
         IN  <<m>> \o SortedMonths(S \ {m})

\* groupby sorts its keys: the categories in the order of str.
RECURSIVE SortedStrs(_)
SortedStrs(S) ==
    IF S = {} THEN <<>>
    ELSE LET m == CHOOSE x \in S : \A y \in S \ {x} : StrLess(x, y)
         IN  <<m>> \o SortedStrs(S \ {m})

\* create_monthly_summary with .first() in place of .sum().
create_monthly_summary_first(d) ==
    IF d = <<>> THEN <<>>
    ELSE LET keys == SortedMonths({MonthOf(d[i].date) : i \in 1..Len(d)})
             InMonth(k) == SelectSeq(d, LAMBDA r : MonthOf(r.date) = k)
         IN  [i \in 1..Len(keys) |->
                [Month  |-> MonthStr(keys[i]),
                 Total  |-> InMonth(keys[i])[1].amount]]

\* create_monthly_summary(df): rows (Month, Total Amount).
create_monthly_summary(d) ==
    IF d = <<>> THEN <<>>
    ELSE LET keys == SortedMonths({MonthOf(d[i].date) : i \in 1..Len(d)})
             InMonth(k) == SelectSeq(d, LAMBDA r : MonthOf(r.date) = k)
         IN  [i \in 1..Len(keys) |->
                [Month  |-> MonthStr(keys[i]),
                 Total  |-> SumAmounts(InMonth(keys[i]))]]

\* df.groupby('category')['amount'].sum().reset_index(): rows (Category,
\* Total Amount), in the order of the keys.
CategoryGroups(d) ==
    LET keys == SortedStrs({d[i].category : i \in 1..Len(d)})
        InCategory(k) == SelectSeq(d, LAMBDA r : r.category = k)
    IN  [i \in 1..Len(keys) |->
           [Category |-> keys[i], Total |-> SumAmounts(InCategory(keys[i]))]]

\* The order of ascending=True.
InSortOrder_ascending(a, b) == a.Total <= b.Total

\* The order sort_values('Total Amount', ascending=False) asks for.
InSortOrder(a, b) == a.Total >= b.Total

\* sort_values with the default kind='quicksort', which is not a stable sort:
\* every arrangement of the rows in the order asked for is an outcome, the
\* rows with equal totals in any order.
SortValues(rows) ==
    LET n == Len(rows)
        Perms == {p \in [1..n -> 1..n] : \A i, j \in 1..n : i # j => p[i] # p[j]}
    IN  {s \in {[i \in 1..n |-> rows[p[i]]] : p \in Perms} :
            \A i \in 1..n - 1 : InSortOrder(s[i], s[i + 1])}

\* What sort_values returns where the sort keeps rows with equal totals in
\* place (numpy sorts a short array by insertion): the groups by total
\* descending, equal totals in the order of the keys.
KeptInPlace(rows) ==
    CHOOSE s \in SortValues(rows) :
        \A i, j \in 1..Len(s) : (i < j /\ s[i].Total = s[j].Total) =>
            StrLess(s[i].Category, s[j].Category)

\* create_category_summary(df): the summaries it may return.
create_category_summary(d) ==
    IF d = <<>> THEN {<<>>} ELSE SortValues(CategoryGroups(d))

\* ---------------------------------------------------------------- filters

\* The first entry of the selectbox: no filtering by category.
All == <<"A", "l", "l">>

\* filtered_df[filtered_df['category'] == selected_category]
FilterCategory(d, selected) ==
    IF selected # All THEN SelectSeq(d, LAMBDA r : r.category = selected) ELSE d

\* The date test with the end of the range left out.
InDateRange_open(r, start_date, end_date) ==
    DateLE(start_date, r.date) /\ ~DateLE(end_date, r.date)

InDateRange(r, start_date, end_date) ==
    DateLE(start_date, r.date) /\ DateLE(r.date, end_date)

\* The date filter: applied when the date_input holds both ends.
FilterDateRange(d, range) ==
    IF Len(range) = 2
    THEN SelectSeq(d, LAMBDA r : InDateRange(r, range[1], range[2]))
    ELSE d

\* Lines 233-243 of main(): both filters, one after the other.
ApplyFilters(d, selected, range) ==
    FilterDateRange(FilterCategory(d, selected), range)

\* ----------------------------------------------------------------- inputs

T_Jan15  == <<"2", "0", "2", "4", "-", "0", "1", "-", "1", "5">>
T_Feb01  == <<"2", "0", "2", "4", "-", "0", "2", "-", "0", "1">>
T_Food   == <<"F", "o", "o", "d">>
T_Travel == <<"T", "r", "a", "v", "e", "l">>
T_NA     == <<"N", "A">>
T_Ten    == <<"1", "0", ".", "0">>

\* The lines a backing file may hold when the program starts: a line that
\* add_expense writes, and one line of each kind that load_expenses must cope
\* with.
SampleLines ==
    { <<T_Feb01, T_Food, T_Ten>>,                      \* 2024-02-01,Food,10.0
      <<T_Jan15, T_Food, <<"a", "b", "c">>>>,          \* 2024-01-15,Food,abc
      <<<<"x", "x">>, T_Food, T_Ten>>,                 \* xx,Food,10.0
      <<T_Jan15, T_Food>>,                             \* 2024-01-15,Food
      <<T_Jan15, T_Food, T_Ten, <<"x">>>>,             \* 2024-01-15,Food,10.0,x
      <<>>,                                            \* (blank)
      <<T_Jan15, T_Food, <<"-", "5", ".", "0">>>>,     \* 2024-01-15,Food,-5.0
      <<T_Jan15, <<" ">>, T_Ten>> }                    \* 2024-01-15, ,10.0

RECURSIVE SeqsUpTo(_, _)
SeqsUpTo(S, n) ==
    IF n = 0 THEN {<<>>}
    ELSE LET shorter == SeqsUpTo(S, n - 1)
         IN  shorter \cup {Append(q, x) : q \in shorter, x \in S}

\* What the form of the sidebar may hand to add_expense.
InputDates == {<<2024, 1, 15>>, <<2024, 2, 1>>}

InputCategories == {T_Food, <<" ">> \o T_Travel \o <<" ">>, T_NA, <<" ">>}

InputAmounts == {1000, 0, 0 - 500}

\* What the date_input of the "All Expenses" tab may hold: one date while the
\* range is being picked, or both ends.
FilterDates == {<<2024, 1, 15>>, <<2024, 2, 1>>}

DateRanges == {<<a>> : a \in FilterDates} \cup (FilterDates \X FilterDates)

\* ------------------------------------------------------------------ state

VARIABLES
    fileExists,         \* os.path.exists("expenses.csv")
    fileLines,          \* the lines of expenses.csv
    expenses_updated,   \* st.session_state.expenses_updated
    pc,                 \* where the script run of main() stands
    df,                 \* main's df
    loadError,          \* load_expenses showed "Error loading expenses"
    addResult,          \* what add_expense showed in this run
    monthly_df,         \* the table of the "Monthly Summary" tab
    category_df,        \* the table of the "Category Breakdown" tab
    selected_category,  \* the selectbox of the "All Expenses" tab
    date_range,         \* the date_input of the "All Expenses" tab
    filtered_df,        \* the records the "All Expenses" tab shows
    last,               \* history: the add_expense call of this or the previous run
    initial,            \* history: the file the program started with
    log                 \* history: the accepted add_expense calls, in order

vars == <<fileExists, fileLines, expenses_updated, pc, df, loadError, addResult,
          monthly_df, category_df, selected_category, date_range, filtered_df,
          last, initial, log>>

file == <<fileExists, fileLines>>

page == <<monthly_df, category_df, selected_category, date_range, filtered_df>>

\* Nothing of the main content area is on the page.
NotShown == <<>>

BlankPage ==
    /\ monthly_df' = <<>>
    /\ category_df' = <<>>
    /\ selected_category' = NotShown
    /\ date_range' = <<>>
    /\ filtered_df' = <<>>

NoCall == [op |-> "none"]

Init ==
    /\ fileExists \in BOOLEAN
    /\ fileLines \in SeqsUpTo(SampleLines, MaxInitLines)
    /\ ~fileExists => fileLines = <<>>
    /\ expenses_updated = FALSE
    /\ pc = "start"
    /\ df = <<>>
    /\ loadError = FALSE
    /\ addResult = "none"
    /\ monthly_df = <<>>
    /\ category_df = <<>>
    /\ selected_category = NotShown
    /\ date_range = <<>>
    /\ filtered_df = <<>>
    /\ last = NoCall
    /\ initial = [exists |-> fileExists, lines |-> fileLines]
    /\ log = <<>>

\* ---------------------------------------------------------------- actions

\* A script run begins (a widget changed, or st.rerun()): the page is built
\* anew, and line 102 loads the file.
Load ==
    /\ pc = "start"
    /\ LET r == load_expenses(fileExists, fileLines)
       IN  /\ df' = r.df
           /\ loadError' = r.error
    /\ addResult' = "none"
    /\ BlankPage
    /\ last' = IF last.op = "submit" /\ last.ok
               THEN [last EXCEPT !.reloaded = TRUE] ELSE NoCall
    /\ pc' = "form"
    /\ UNCHANGED <<file, expenses_updated, initial, log>>

\* Lines 126-128: the form was not submitted in this run.
NotSubmitted ==
    /\ pc = "form"
    /\ pc' = "content"
    /\ last' = NoCall
    /\ UNCHANGED <<file, expenses_updated, df, loadError, addResult, page,
                   initial, log>>

Call(expense_date, category, amount, r) ==
    [op |-> "submit", date |-> expense_date, category |-> category,
     amount |-> amount, ok |-> r.ok, reloaded |-> FALSE,
     existed |-> fileExists, linesBefore |-> fileLines, dfBefore |-> df]

\* Lines 128-130, add_expense returns False: the run goes on to the content.
SubmitRejected(expense_date, category, amount) ==
    /\ pc = "form"
    /\ LET r == add_expense(fileExists, fileLines, expense_date, category, amount)
       IN  /\ ~r.ok
           /\ fileExists' = r.exists
           /\ fileLines' = r.lines
           /\ addResult' = r.msg
           /\ last' = Call(expense_date, category, amount, r)
    /\ pc' = "content"
    /\ UNCHANGED <<expenses_updated, df, loadError, page, initial, log>>

\* Lines 128-130, add_expense returns True: st.rerun() starts the script again.
SubmitAccepted(expense_date, category, amount) ==
    /\ pc = "form"
    /\ Len(fileLines) < MaxFileLines
    /\ LET r == add_expense(fileExists, fileLines, expense_date, category, amount)
       IN  /\ r.ok
           /\ fileExists' = r.exists
           /\ fileLines' = r.lines
           /\ addResult' = r.msg
           /\ last' = Call(expense_date, category, amount, r)
    /\ expenses_updated' = TRUE
    /\ log' = Append(log, [date |-> expense_date, category |-> category,
                           amount |-> amount])
    /\ pc' = "start"
    /\ UNCHANGED <<df, loadError, page, initial>>

\* Lines 133-135: no record, the run ends with the hint.
NoExpenses ==
    /\ pc = "content"
    /\ df = <<>>
    /\ pc' = "start"
    /\ last' = NoCall
    /\ UNCHANGED <<file, expenses_updated, df, loadError, addResult, page,
                   initial, log>>

\* The options of the selectbox (line 218).
CategoryOptions(d) == {All} \cup {d[i].category : i \in 1..Len(d)}

\* Lines 137-261: the tabs, with what the two filter widgets hold.
ShowTabs(selected, range) ==
    /\ pc = "content"
    /\ df # <<>>
    /\ selected \in CategoryOptions(df)
    /\ monthly_df' = create_monthly_summary(df)
    /\ category_df' \in create_category_summary(df)
    /\ selected_category' = selected
    /\ date_range' = range
    /\ filtered_df' = ApplyFilters(df, selected, range)
    /\ pc' = "start"
    /\ last' = NoCall
    /\ UNCHANGED <<file, expenses_updated, df, loadError, addResult, initial, log>>

Next ==
    \/ Load
    \/ NotSubmitted
    \/ \E d \in InputDates, c \in InputCategories, a \in InputAmounts :
          SubmitRejected(d, c, a)
    \/ \E d \in InputDates, c \in InputCategories, a \in InputAmounts :
          SubmitAccepted(d, c, a)
    \/ NoExpenses
    \/ \E selected \in {All, T_Food, T_Travel, T_NA, <<" ">>}, range \in DateRanges :
          ShowTabs(selected, range)

Spec == Init /\ [][Next]_vars

\* ------------------------------------------------- the terms of the claims

\* The tabs are on the page: the last step was ShowTabs.
Shown == selected_category # NotShown

\* df is what load_expenses returned for the file as it is now.
Loaded == pc \in {"form", "content"}

AllSpaces(s) == \A i \in 1..Len(s) : s[i] = " "

\* t is c without the spaces at its two ends.
IsTrimOf(t, c) ==
    /\ t = <<>> \/ (t[1] # " " /\ t[Len(t)] # " ")
    /\ \E i \in 0..Len(c) : \E j \in i..Len(c) :
          /\ t = SubSeq(c, i + 1, j)
          /\ \A k \in (1..i) \cup ((j + 1)..Len(c)) : c[k] = " "

Trimmed(c) == CHOOSE t \in {SubSeq(c, i, j) : i \in 1..Len(c) + 1, j \in 0..Len(c)} :
                 IsTrimOf(t, c)

\* Days are compared by one number per date.
DayNumber(d) == d[1] * 10000 + d[2] * 100 + d[3]

\* A line as section 6 of the specification describes it.
WellFormedLine(l) ==
    /\ Len(l) = 3
    /\ ToDatetime(l[1]).ok
    /\ ~AllSpaces(l[2])
    /\ ToNumeric(l[3]).ok
    /\ ToNumeric(l[3]).v > 0

RecordOfLine(l) ==
    [date |-> ToDatetime(l[1]).v, category |-> l[2], amount |-> ToNumeric(l[3]).v]

\* The record an add_expense call stands for.
RecordOfCall(c) ==
    [date |-> c.date, category |-> Trimmed(c.category), amount |-> c.amount]

ValidCall(c) == c.amount > 0 /\ ~AllSpaces(c.category)

FileUntouched == fileExists = last.existed /\ fileLines = last.linesBefore

RECURSIVE SumTotals(_)
SumTotals(rows) == IF rows = <<>> THEN 0 ELSE rows[1].Total + SumTotals(Tail(rows))

AmountWhere(d, Test(_)) == SumAmounts(SelectSeq(d, Test))

\* ----------------------------------------------------------------- claims

\* C1: for every date, every amount > 0 and every category that is not empty
\* after trimming, on a file of well-formed lines, add_expense succeeds and the
\* reload that follows returns the records of before followed by that record
\* (same date, trimmed category, same amount).
C1_RoundTrip ==
    (/\ last.op = "submit"
     /\ ValidCall(last)
     /\ \A i \in 1..Len(last.linesBefore) : WellFormedLine(last.linesBefore[i]))
    => /\ last.ok
       /\ last.reloaded =>
             /\ ~loadError
             /\ df = Append(last.dfBefore, RecordOfCall(last))

\* C2, as claimed: an add_expense call with amount <= 0 fails with
\* NonPositiveAmount, one with a category that trims to empty fails with
\* EmptyCategory, and both leave the file as it was.
C2_RejectedAsClaimed ==
    (last.op = "submit" /\ ~last.reloaded)
    => /\ last.amount <= 0 => (addResult = "NonPositiveAmount" /\ FileUntouched)
       /\ AllSpaces(last.category) => (addResult = "EmptyCategory" /\ FileUntouched)

\* C2, amended: a category that trims to empty fails with EmptyCategory whatever
\* the amount; an amount <= 0 with a category that does not trim to empty fails
\* with NonPositiveAmount; both leave the file, its existence and its lines,
\* as it was.
C2_RejectedNoWrite ==
    (last.op = "submit" /\ ~last.reloaded)
    => /\ AllSpaces(last.category)
             => (~last.ok /\ addResult = "EmptyCategory" /\ FileUntouched)
       /\ (~AllSpaces(last.category) /\ last.amount <= 0)
             => (~last.ok /\ addResult = "NonPositiveAmount" /\ FileUntouched)

C2_Witness ==
    /\ last.op = "submit"
    /\ last.amount <= 0
    /\ ~AllSpaces(last.category)
    /\ addResult = "NonPositiveAmount"
    /\ fileLines # <<>>

\* A line that encodes a call: the date as YYYY-MM-DD, the trimmed category,
\* the amount as a decimal numeral.
Encodes(l, c) ==
    /\ Len(l) = 3
    /\ Len(l[1]) = 10 /\ l[1][5] = "-" /\ l[1][8] = "-"
    /\ ToDatetime(l[1]) = [ok |-> TRUE, v |-> c.date]
    /\ IsTrimOf(l[2], c.category)
    /\ ToNumeric(l[3]) = [ok |-> TRUE, v |-> c.amount]

\* C3: the file is always the file the program started with followed by one
\* line per accepted add_expense call, in the order of the calls, each encoding
\* the call; nothing before it is removed or rewritten, and a file that
\* existed or was written still exists.
C3_AppendOnly ==
    /\ Len(fileLines) = Len(initial.lines) + Len(log)
    /\ SubSeq(fileLines, 1, Len(initial.lines)) = initial.lines
    /\ \A i \in 1..Len(log) : Encodes(fileLines[Len(initial.lines) + i], log[i])
    /\ (initial.exists \/ log # <<>>) => fileExists
    /\ (last.op = "submit" /\ last.ok /\ ~last.reloaded)
          => /\ SubSeq(fileLines, 1, Len(fileLines) - 1) = last.linesBefore
             /\ Encodes(fileLines[Len(fileLines)], last)

C3_Witness ==
    /\ last.op = "submit" /\ last.ok
    /\ last.linesBefore # <<>>
    /\ Len(fileLines) = Len(last.linesBefore) + 1

\* C4: every record load_expenses returns has an amount > 0, a category that
\* is not empty after trimming and a valid date, whatever the file holds.
C4_LoadedRecordsValid ==
    Loaded => \A i \in 1..Len(df) :
                 /\ df[i].amount > 0
                 /\ ~AllSpaces(df[i].category)
                 /\ ValidDate(df[i].date)

\* A line of one of the kinds C5 names: wrong arity (blank included), an
\* amount that is no number, a date that does not parse.
MalformedLine(l) ==
    \/ Len(l) # 3
    \/ ~ToNumeric(l[3]).ok
    \/ ~ToDatetime(l[1]).ok

WellFormedRecords(lines) ==
    LET good == SelectSeq(lines, WellFormedLine)
    IN  [i \in 1..Len(good) |-> RecordOfLine(good[i])]

\* C5: on a file of well-formed lines, one at least, and lines of the kinds
\* above, the load does not fail and returns the records of the well-formed
\* lines, all of them and nothing else.
C5_TolerantLineByLine ==
    (/\ Loaded
     /\ fileExists
     /\ \E i \in 1..Len(fileLines) : WellFormedLine(fileLines[i])
     /\ \A i \in 1..Len(fileLines) :
           WellFormedLine(fileLines[i]) \/ MalformedLine(fileLines[i]))
    => /\ ~loadError
       /\ df = WellFormedRecords(fileLines)

\* C6: starting from an absent file, load_expenses returns the records of the
\* accepted add_expense calls, in the order of the calls, and nothing else.
C6_FileOrder ==
    (Loaded /\ ~initial.exists)
    => df = [i \in 1..Len(log) |-> RecordOfCall(log[i])]

\* C7: load_expenses on an absent file and on a file with no line returns no
\* record and shows no error.
C7_AbsentOrEmpty ==
    (Loaded /\ (~fileExists \/ fileLines = <<>>)) => (df = <<>> /\ ~loadError)

C7_Witness == pc = "form" /\ fileExists /\ fileLines = <<>> /\ df = <<>>

FirstSeen(d, c) == CHOOSE i \in 1..Len(d) : d[i].category = c /\
                       \A j \in 1..(i - 1) : d[j].category # c

CategoriesOf(d) == {d[i].category : i \in 1..Len(d)}

\* One row per category of df, each with the sum of its amounts.
OneRowPerCategory ==
    /\ Len(category_df) = Cardinality(CategoriesOf(df))
    /\ {category_df[i].Category : i \in 1..Len(category_df)} = CategoriesOf(df)
    /\ \A i \in 1..Len(category_df) :
          category_df[i].Total =
              AmountWhere(df, LAMBDA r : r.category = category_df[i].Category)

\* A RecordSet as section 3 of the specification describes it.
ValidRecordSet(d) ==
    \A i \in 1..Len(d) :
        d[i].amount > 0 /\ ~AllSpaces(d[i].category) /\ ValidDate(d[i].date)

\* C8, as claimed, for a valid RecordSet and a sort that keeps rows with equal
\* totals in place: one row per category, by total descending, the categories
\* with equal totals in the order of their first record in df.
C8_StableAsClaimed ==
    (Shown /\ ValidRecordSet(df) /\ category_df = KeptInPlace(CategoryGroups(df)))
    => /\ OneRowPerCategory
       /\ \A i, j \in 1..Len(category_df) : i < j =>
             \/ category_df[i].Total > category_df[j].Total
             \/ /\ category_df[i].Total = category_df[j].Total
                /\ FirstSeen(df, category_df[i].Category)
                      < FirstSeen(df, category_df[j].Category)

\* C8, amended: one row per category with the sum of its amounts, by total
\* descending; nothing is said of the order of categories with equal totals.
C8_SortedByTotal ==
    Shown => /\ OneRowPerCategory
             /\ \A i, j \in 1..Len(category_df) : i < j =>
                   category_df[i].Total >= category_df[j].Total

C8_Witness ==
    /\ Shown
    /\ Len(category_df) >= 2
    /\ category_df[1].Total > category_df[Len(category_df)].Total

\* C9: the totals of the monthly summary, the totals of the category summary
\* and the amounts of the records have the same sum; every record falls under
\* exactly one row of each summary, the row of its YYYY-MM and the row of its
\* category, whose total is the sum of the records under it; no record gives
\* two empty summaries.
C9_Conservation ==
    /\ Shown =>
          /\ SumTotals(monthly_df) = SumAmounts(df)
          /\ SumTotals(category_df) = SumAmounts(df)
          /\ \A i \in 1..Len(df) :
                /\ Cardinality({k \in 1..Len(monthly_df) :
                      monthly_df[k].Month = SubSeq(StrfDate(df[i].date), 1, 7)}) = 1
                /\ Cardinality({k \in 1..Len(category_df) :
                      category_df[k].Category = df[i].category}) = 1
          /\ \A k \in 1..Len(monthly_df) :
                monthly_df[k].Total =
                    AmountWhere(df, LAMBDA r :
                        SubSeq(StrfDate(r.date), 1, 7) = monthly_df[k].Month)
    /\ df = <<>> =>
          /\ create_monthly_summary(df) = <<>>
          /\ create_category_summary(df) = {<<>>}
          /\ monthly_df = <<>> /\ category_df = <<>>

C9_Witness ==
    /\ Shown
    /\ Len(category_df) >= 2
    /\ Len(df) > Len(monthly_df)
    /\ SumTotals(monthly_df) > 0

\* What the category filter leaves, for the date filter to work on.
OfSelectedCategory ==
    IF selected_category = All THEN df
    ELSE SelectSeq(df, LAMBDA r : r.category = selected_category)

\* C10: with both ends given, the date filter keeps exactly the records with
\* start <= date <= end, in their order, and none when start > end; df is
\* still what load_expenses returned.
C10_DateRangeInclusive ==
    (Shown /\ Len(date_range) = 2)
    => /\ filtered_df =
             SelectSeq(OfSelectedCategory, LAMBDA r :
                 /\ DayNumber(date_range[1]) <= DayNumber(r.date)
                 /\ DayNumber(r.date) <= DayNumber(date_range[2]))
       /\ DayNumber(date_range[1]) > DayNumber(date_range[2]) => filtered_df = <<>>
       /\ df = load_expenses(fileExists, fileLines).df

C10_Witness ==
    /\ Shown
    /\ Len(date_range) = 2
    /\ DayNumber(date_range[1]) > DayNumber(date_range[2])
    /\ Len(df) >= 2
    /\ filtered_df = <<>>

====
